---- MODULE Spec2Model ----
(***************************************************************************)
(* Two scripted Apache Ignite clients: the REST program                    *)
(* (ignite_with_rest_api/src/main.rs) and the binary-protocol program      *)
(* (src/main.rs).  Each is a linear script of request/response round trips *)
(* against an external cluster.  The program is modelled step by step; the *)
(* cluster is the environment: it answers every outstanding request with   *)
(* one of a bounded set of replies.                                        *)
(***************************************************************************)
EXTENDS Integers, Sequences, FiniteSets, TLC

VARIABLES
    prog,         \* which program runs: "rest" or "binary"
    pc,           \* index of the script step the program is at
    phase,        \* "ready" (about to send), "awaiting", "received", "done"
    status,       \* "running", "finished" or "aborted"
    exitCode,     \* process exit status; -1 while running
    outstanding,  \* positions in sent of the requests not yet answered
    sent,         \* every request sent so far, in order
    reply,        \* the reply the program is handling (or handled last)
    report,       \* per step: what the program printed about its outcome
    retrieved,    \* per get step: the decoded value the program obtained
    failedSteps,  \* history: steps whose reply was an error reply
    cluster       \* the external cluster: cache, entries, table, rows

vars == <<prog, pc, phase, status, exitCode, outstanding, sent, reply,
          report, retrieved, failedSteps, cluster>>

\* Largest number of rows a SELECT reply carries in its first page.
MaxRows == 1

(***************************************************************************)
(* serde_json::Value, as far as the programs inspect it.                   *)
(***************************************************************************)
JNull == [t |-> "null"]
JNum(n) == [t |-> "num", v |-> n]
JStr(s) == [t |-> "str", v |-> s]
JArr(a) == [t |-> "arr", v |-> a]
JObj(f) == [t |-> "obj", v |-> f]

None == [some |-> FALSE]
Some(x) == [some |-> TRUE, v |-> x]

\* Value::get(key): Some(field) for an object holding the key, else None.
JGet(j, key) ==
    IF j.t = "obj" /\ key \in DOMAIN j.v THEN Some(j.v[key]) ELSE None

\* Value::get(index) on an array.
JGetIdx(j, i) ==
    IF j.t = "arr" /\ i + 1 \in DOMAIN j.v THEN Some(j.v[i + 1]) ELSE None

\* value["key"]: Null when the key is absent or the value is no object.
JIndex(j, key) ==
    IF j.t = "obj" /\ key \in DOMAIN j.v THEN j.v[key] ELSE JNull

is_null(j) == j.t = "null"
as_i64(j) == IF j.t = "num" THEN Some(j.v) ELSE None
as_str(j) == IF j.t = "str" THEN Some(j.v) ELSE None
as_array(j) == IF j.t = "arr" THEN Some(j.v) ELSE None

(***************************************************************************)
(* MyValue and its conversions.                                            *)
(***************************************************************************)
MyValue(id, name) == [id |-> id, name |-> name]

RestValue1 == MyValue(1, "Data from Rust REST client!")
RestValue2 == MyValue(2, "Another entry!")
BinValue1 == MyValue(1, "Hello, Ignite!")
BinValue2 == MyValue(2, "Rust is great!")

\* #[derive(Serialize)]: a JSON object with the two fields.
ToJson(val) ==
    JObj([f \in {"id", "name"} |-> IF f = "id" THEN JNum(val.id) ELSE JStr(val.name)])

I32Max == 2147483647

IsI32(n) == n >= -I32Max - 1 /\ n <= I32Max

\* serde_json::from_value::<MyValue>: an object with an i32 "id" and a string
\* "name" (other fields ignored), or a two-element array [id, name].
FromValue(j) ==
    IF j.t = "obj"
    THEN IF /\ {"id", "name"} \subseteq DOMAIN j.v
            /\ j.v["id"].t = "num" /\ IsI32(j.v["id"].v)
            /\ j.v["name"].t = "str"
         THEN Some(MyValue(j.v["id"].v, j.v["name"].v))
         ELSE None
    ELSE IF j.t = "arr"
    THEN IF /\ Len(j.v) = 2
            /\ j.v[1].t = "num" /\ IsI32(j.v[1].v)
            /\ j.v[2].t = "str"
         THEN Some(MyValue(j.v[1].v, j.v[2].v))
         ELSE None
    ELSE None

(***************************************************************************)
(* The REST program's script and the request each step sends.              *)
(***************************************************************************)
cache_name == "my_rest_cache"
key1 == 1
key2 == 2
non_existent_key == 99
InsertedId == 101
InsertedName == "SQL Inserted Item 1"

\* A faulty variant of RestScript: the cache is destroyed before the SQL steps.
RestScript_DestroyBeforeSql ==
    <<"getOrCreate", "put1", "put2", "get1", "get99",
      "destroy", "createTable", "insert", "select", "selectParam">>

RestScript ==
    <<"getOrCreate", "put1", "put2", "get1", "get99",
      "createTable", "insert", "select", "selectParam", "destroy">>

CacheAdminPayload == JObj([f \in {"cacheName"} |-> JStr(cache_name)])

PutPayload(key, val) ==
    JObj([f \in {"cacheName", "key", "value"} |->
            IF f = "cacheName" THEN JStr(cache_name)
            ELSE IF f = "key" THEN JNum(key) ELSE ToJson(val)])

\* A faulty variant of GetPayload: every get asks for key 2.
GetPayload_WrongKey(key) ==
    JObj([f \in {"cacheName", "key"} |->
            IF f = "cacheName" THEN JStr(cache_name) ELSE JNum(key2)])

GetPayload(key) ==
    JObj([f \in {"cacheName", "key"} |->
            IF f = "cacheName" THEN JStr(cache_name) ELSE JNum(key)])

PageSize == 100

\* "args" and "pageSize" are present in the payloads that give them.
SqlPayload(query, args, pageSize) ==
    JObj([f \in {"schemaName", "query"}
                \cup (IF args.some THEN {"args"} ELSE {})
                \cup (IF pageSize.some THEN {"pageSize"} ELSE {}) |->
            IF f = "schemaName" THEN JStr("PUBLIC")
            ELSE IF f = "query" THEN JStr(query)
            ELSE IF f = "args" THEN JArr(args.v) ELSE JNum(pageSize.v)])

\* The URL and JSON payload the step posts.
RestRequest(step) ==
    CASE step = "getOrCreate" -> [url |-> "cache/getOrCreate", payload |-> CacheAdminPayload]
      [] step = "put1"        -> [url |-> "cache/put", payload |-> PutPayload(key1, RestValue1)]
      [] step = "put2"        -> [url |-> "cache/put", payload |-> PutPayload(key2, RestValue2)]
      [] step = "get1"        -> [url |-> "cache/get", payload |-> GetPayload(key1)]
      [] step = "get99"       -> [url |-> "cache/get", payload |-> GetPayload(non_existent_key)]
      [] step = "createTable" -> [url |-> "sql", payload |-> SqlPayload("CREATE TABLE", None, Some(PageSize))]
      [] step = "insert"      -> [url |-> "sql",
                                  payload |-> SqlPayload("INSERT", Some(<<JNum(InsertedId), JStr(InsertedName)>>), None)]
      [] step = "select"      -> [url |-> "sql", payload |-> SqlPayload("SELECT", None, Some(PageSize))]
      [] step = "selectParam" -> [url |-> "sql",
                                  payload |-> SqlPayload("SELECT WHERE", Some(<<JNum(InsertedId)>>), Some(PageSize))]
      [] step = "destroy"     -> [url |-> "cache/destroy", payload |-> CacheAdminPayload]

(***************************************************************************)
(* The binary program's script and the call each step makes.  A value      *)
(* crosses the wire as the IgniteObj derive writes it: its fields in       *)
(* declaration order.                                                      *)
(***************************************************************************)
bin_cache_name == "my_rust_cache"

BinScript ==
    <<"connect", "get_or_create_cache", "put1", "put2",
      "get1", "get2", "get99", "destroy_cache">>

WriteObj(val) == <<val.id, val.name>>

ReadObj(bytes) ==
    IF Len(bytes) = 2 THEN Some(MyValue(bytes[1], bytes[2])) ELSE None

BinRequest(step) ==
    CASE step = "connect"             -> [op |-> "handshake", cache |-> "", key |-> 0, value |-> <<>>]
      [] step = "get_or_create_cache" -> [op |-> "get_or_create_cache", cache |-> bin_cache_name, key |-> 0, value |-> <<>>]
      [] step = "put1"                -> [op |-> "put", cache |-> bin_cache_name, key |-> key1, value |-> WriteObj(BinValue1)]
      [] step = "put2"                -> [op |-> "put", cache |-> bin_cache_name, key |-> key2, value |-> WriteObj(BinValue2)]
      [] step = "get1"                -> [op |-> "get", cache |-> bin_cache_name, key |-> key1, value |-> <<>>]
      [] step = "get2"                -> [op |-> "get", cache |-> bin_cache_name, key |-> key2, value |-> <<>>]
      [] step = "get99"               -> [op |-> "get", cache |-> bin_cache_name, key |-> non_existent_key, value |-> <<>>]
      [] step = "destroy_cache"       -> [op |-> "destroy_cache", cache |-> bin_cache_name, key |-> 0, value |-> <<>>]

Script(p) == IF p = "rest" THEN RestScript ELSE BinScript
Request(p, step) == IF p = "rest" THEN RestRequest(step) ELSE BinRequest(step)
Steps(p) == {Script(p)[i] : i \in 1..Len(Script(p))}

(***************************************************************************)
(* The cluster (the environment).  It holds one cache with its entries     *)
(* and, for the REST program, one SQL table with its rows.                 *)
(***************************************************************************)
NoEntries == [k \in {} |-> <<>>]

EmptyCluster == [cache |-> FALSE, entries |-> NoEntries, table |-> FALSE, rows |-> {}]

\* The operation a request asks for, with its key and value.
OpOf(p, req) ==
    IF p = "rest"
    THEN CASE req.url = "cache/getOrCreate" -> [op |-> "ensure"]
           [] req.url = "cache/put" ->
                [op |-> "put", key |-> req.payload.v["key"].v, value |-> req.payload.v["value"]]
           [] req.url = "cache/get" -> [op |-> "get", key |-> req.payload.v["key"].v]
           [] req.url = "cache/destroy" -> [op |-> "destroy"]
           [] req.url = "sql" ->
                [op |-> "sql", query |-> req.payload.v["query"].v, args |-> JIndex(req.payload, "args")]
    ELSE CASE req.op = "handshake" -> [op |-> "handshake"]
           [] req.op = "get_or_create_cache" -> [op |-> "ensure"]
           [] req.op = "put" -> [op |-> "put", key |-> req.key, value |-> req.value]
           [] req.op = "get" -> [op |-> "get", key |-> req.key]
           [] req.op = "destroy_cache" -> [op |-> "destroy"]

\* The cluster after it has executed the request.
Apply(cl, p, req) ==
    LET o == OpOf(p, req) IN
    CASE o.op = "ensure"  -> [cl EXCEPT !.cache = TRUE]
      [] o.op = "put"     ->
           [cl EXCEPT !.entries =
               [k \in DOMAIN cl.entries \cup {o.key} |->
                   IF k = o.key THEN o.value ELSE cl.entries[k]]]
      [] o.op = "destroy" -> EmptyCluster
      [] o.op = "sql" /\ o.query = "CREATE TABLE" -> [cl EXCEPT !.table = TRUE]
      [] o.op = "sql" /\ o.query = "INSERT" -> [cl EXCEPT !.rows = cl.rows \cup {o.args}]
      [] OTHER -> cl

\* The cluster after an earlier run of the same program executed its first
\* n steps.
RECURSIVE ClusterAfter(_, _)
ClusterAfter(p, n) ==
    IF n = 0 THEN EmptyCluster
    ELSE Apply(ClusterAfter(p, n - 1), p, Request(p, Script(p)[n]))

\* The cluster a run finds: untouched, or as an earlier run left it when it
\* aborted at its destroy step (a run that aborts destroys nothing).
InitClusters(p) == {EmptyCluster, ClusterAfter(p, Len(Script(p)) - 1)}

(***************************************************************************)
(* Replies.  A REST reply is a send error or an HTTP response: 2xx or not, *)
(* with a body that may fail to be read, may be text that is no JSON, or   *)
(* is a JSON envelope with optional "response", "successStatus", "error".  *)
(***************************************************************************)
NoReply == [net |-> "none"]
NotJson == [t |-> "notjson"]

SendError == [net |-> "senderr", success |-> FALSE, readable |-> FALSE, body |-> NotJson]
Http(success, readable, body) ==
    [net |-> "http", success |-> success, readable |-> readable, body |-> body]

Envelope(r, s, e) ==
    JObj([f \in (IF r.some THEN {"response"} ELSE {})
                \cup (IF s.some THEN {"successStatus"} ELSE {})
                \cup (IF e.some THEN {"error"} ELSE {}) |->
            IF f = "response" THEN r.v ELSE IF f = "successStatus" THEN s.v ELSE e.v])

StatusFields == {None, Some(JNum(0)), Some(JNum(1))}
ErrorFields == {None, Some(JStr("Ignite-side failure"))}

GetResponses ==
    {None, Some(JNull), Some(ToJson(RestValue1)), Some(ToJson(RestValue2)),
     Some(JArr(<<JNum(RestValue1.id), JStr(RestValue1.name)>>)), Some(JStr("garbage"))}

Row == JArr(<<JNum(InsertedId), JStr(InsertedName)>>)
ItemsObj(n) == JObj([f \in {"items"} |-> JArr([i \in 1..n |-> Row])])

SqlResponses ==
    {None, Some(JNull), Some(JObj([f \in {} |-> JNull]))}
        \cup {Some(ItemsObj(n)) : n \in 0..MaxRows}

GetSteps == {"get1", "get2", "get99"}
SqlSteps == {"createTable", "insert", "select", "selectParam"}
SelectSteps == {"select", "selectParam"}

\* Replies in which no usable HTTP response body arrives.
RestFailures ==
    {SendError} \cup {Http(FALSE, rd, NotJson) : rd \in BOOLEAN}
        \cup {Http(TRUE, FALSE, NotJson), Http(TRUE, TRUE, NotJson)}

\* Every reply the cluster may give to a REST step.  The body is modelled
\* for the steps whose body the program reads.
RestReplies(step) ==
    IF step \in GetSteps
    THEN RestFailures \cup
         {Http(TRUE, TRUE, Envelope(r, s, e)) :
             r \in GetResponses, s \in StatusFields, e \in ErrorFields}
    ELSE IF step \in SqlSteps
    THEN RestFailures \cup
         {Http(TRUE, TRUE, Envelope(r, s, e)) :
             r \in SqlResponses, s \in StatusFields, e \in ErrorFields}
    ELSE {SendError, Http(TRUE, TRUE, NotJson)} \cup {Http(FALSE, rd, NotJson) : rd \in BOOLEAN}

(***************************************************************************)
(* A binary reply is what the ignite_rs call gets back from the socket:    *)
(* a failure of some kind, or success with an optional encoded value.      *)
(***************************************************************************)
BinErr(kind) == [net |-> "binary", res |-> "Err", kind |-> kind, payload |-> None]
BinOk(payload) == [net |-> "binary", res |-> "Ok", kind |-> "none", payload |-> payload]

BinFailures == {BinErr(k) : k \in {"io", "server", "decode"}}

BinReplies(step) ==
    IF step \in GetSteps
    THEN BinFailures \cup
         {BinOk(None), BinOk(Some(WriteObj(BinValue1))), BinOk(Some(WriteObj(BinValue2))),
          BinOk(Some(<<>>))}
    ELSE BinFailures \cup {BinOk(None)}

Replies(p, step) == IF p = "rest" THEN RestReplies(step) ELSE BinReplies(step)

\* The reply of a cluster that answers a get from its current entries.
StoredReply(cl, p, req) ==
    LET k == OpOf(p, req).key
        found == cl.cache /\ k \in DOMAIN cl.entries
    IN  IF p = "rest"
        THEN Http(TRUE, TRUE, Envelope(Some(IF found THEN cl.entries[k] ELSE JNull), None, None))
        ELSE BinOk(IF found THEN Some(cl.entries[k]) ELSE None)

\* Replies of a cluster that behaves as a key/value store: a get is answered
\* from the entries, or not answered at all.
KVReplies(cl, p, step) ==
    IF step \in GetSteps
    THEN (IF p = "rest" THEN {SendError, Http(FALSE, TRUE, NotJson)} ELSE {BinErr("io")})
         \cup {StoredReply(cl, p, Request(p, step))}
    ELSE Replies(p, step)

\* Whether the reply acknowledges the request as executed.
Accepted(p, r) ==
    IF p = "rest"
    THEN /\ r.net = "http" /\ r.success
         /\ is_null(JIndex(r.body, "error"))
         /\ as_i64(JIndex(r.body, "successStatus")) \in {None, Some(0)}
    ELSE r.res = "Ok"

(***************************************************************************)
(* The error taxonomy (TransportError, ApplicationError, DecodingError,    *)
(* and the non-error NotFound), applied to a reply.  It feeds the history  *)
(* variable failedSteps only; no program step reads it.                    *)
(***************************************************************************)
ErrorKind(p, step, r) ==
    IF p = "rest"
    THEN IF r.net = "senderr" \/ ~r.success THEN "transport"
         ELSE IF step \notin GetSteps \cup SqlSteps THEN "none"
         ELSE IF ~r.readable THEN "transport"
         ELSE IF r.body.t # "obj" THEN "decoding"
         ELSE IF \/ ~is_null(JIndex(r.body, "error"))
                 \/ /\ JGet(r.body, "successStatus").some
                    /\ as_i64(JIndex(r.body, "successStatus")) # Some(0)
              THEN "application"
         ELSE IF step \in GetSteps
              THEN IF ~JGet(r.body, "response").some THEN "decoding"
                   ELSE IF is_null(JIndex(r.body, "response")) THEN "absent"
                   ELSE IF step # "get99" /\ ~FromValue(JIndex(r.body, "response")).some
                        THEN "decoding"
                   ELSE "none"
         ELSE IF ~JGet(r.body, "successStatus").some THEN "decoding"
         ELSE IF /\ step \in SelectSteps
                 /\ ~as_array(JIndex(JIndex(r.body, "response"), "items")).some
              THEN "decoding"
         ELSE "none"
    ELSE IF r.res = "Err"
         THEN (CASE r.kind = "io" -> "transport"
                 [] r.kind = "server" -> "application"
                 [] OTHER -> "decoding")
         ELSE IF step \notin GetSteps THEN "none"
         ELSE IF ~r.payload.some THEN "absent"
         ELSE IF ~ReadObj(r.payload.v).some THEN "decoding"
         ELSE "none"

IsError(p, step, r) == ErrorKind(p, step, r) \in {"transport", "application", "decoding"}

(***************************************************************************)
(* Program state shared by both scripts.                                   *)
(***************************************************************************)
Cur == Script(prog)[pc]

Msg(m) == [msg |-> m, rows |-> <<>>]

Init ==
    /\ prog \in {"rest", "binary"}
    /\ pc = 1
    /\ phase = "ready"
    /\ status = "running"
    /\ exitCode = -1
    /\ outstanding = {}
    /\ sent = <<>>
    /\ reply = NoReply
    /\ report = [st \in Steps(prog) |-> Msg("none")]
    /\ retrieved = [st \in Steps(prog) \cap GetSteps |-> None]
    /\ failedSteps = {}
    /\ cluster \in InitClusters(prog)

\* A faulty variant of Proceed: the script stays at the step and waits for a second
\* reply to the request that was already answered.
Proceed_WaitsAgain(m) ==
    /\ report' = [report EXCEPT ![Cur] = m]
    /\ phase' = "awaiting"
    /\ UNCHANGED <<pc, status, exitCode>>

\* The step printed its outcome and the script goes on to the next step.
Proceed(m) ==
    /\ report' = [report EXCEPT ![Cur] = m]
    /\ pc' = pc + 1
    /\ phase' = "ready"
    /\ UNCHANGED <<status, exitCode>>

\* main returns Err (exit status 1) or panics (exit status 101).
Abort(code) ==
    /\ report' = [report EXCEPT ![Cur] = Msg("error")]
    /\ status' = "aborted"
    /\ exitCode' = code
    /\ phase' = "done"
    /\ UNCHANGED pc

\* The last step is over and main returns normally.
Finish(m) ==
    /\ report' = [report EXCEPT ![Cur] = m]
    /\ status' = "finished"
    /\ exitCode' = 0
    /\ phase' = "done"
    /\ UNCHANGED pc

\* A faulty variant of SendStep: the request is issued without waiting for the answer
\* to the one before it.
SendStep_NoWait(p) ==
    /\ prog = p
    /\ status = "running"
    /\ phase \in {"ready", "awaiting"}
    /\ sent' = Append(sent, Request(p, Cur))
    /\ outstanding' = outstanding \cup {Len(sent')}
    /\ phase' = "awaiting"
    /\ UNCHANGED <<prog, pc, status, exitCode, reply, report, retrieved, failedSteps, cluster>>

\* The program issues the request of its current step and waits for it.
SendStep(p) ==
    /\ prog = p
    /\ status = "running"
    /\ phase = "ready"
    /\ sent' = Append(sent, Request(p, Cur))
    /\ outstanding' = outstanding \cup {Len(sent')}
    /\ phase' = "awaiting"
    /\ UNCHANGED <<prog, pc, status, exitCode, reply, report, retrieved, failedSteps, cluster>>

(***************************************************************************)
(* The cluster answers the outstanding request.                            *)
(***************************************************************************)
\* The cluster has executed exactly the requests it acknowledges.
Answer(id, r) ==
    /\ outstanding' = outstanding \ {id}
    /\ reply' = r
    /\ phase' = "received"
    /\ cluster' = IF Accepted(prog, r) THEN Apply(cluster, prog, sent[id]) ELSE cluster
    /\ failedSteps' = IF IsError(prog, Cur, r) THEN failedSteps \cup {Cur} ELSE failedSteps
    /\ UNCHANGED <<prog, pc, status, exitCode, sent, report, retrieved>>

\* Any reply at all.
ClusterRespond ==
    /\ phase = "awaiting"
    /\ \E id \in outstanding, r \in Replies(prog, Cur) : Answer(id, r)

\* The cluster as a key/value store: each get is answered from the entries.
KVRespond ==
    /\ phase = "awaiting"
    /\ \E id \in outstanding, r \in KVReplies(cluster, prog, Cur) : Answer(id, r)

(***************************************************************************)
(* The REST program: how each step handles its reply.                      *)
(***************************************************************************)
RestAt(steps) ==
    /\ prog = "rest"
    /\ status = "running"
    /\ phase = "received"
    /\ Cur \in steps

RestSend == SendStep("rest")

\* client.post(..).send().await? returns Err: no response arrived.
send_failed(r) == r.net = "senderr"

\* A faulty variant of is_success: any HTTP response counts as success.
is_success_AnyResponse(r) == r.net = "http"

\* status.is_success(): the HTTP status is 2xx.
is_success(r) == r.net = "http" /\ r.success

\* response.json::<Value>().await succeeds and gives the body.
JsonOk(r) == r.readable /\ r.body.t # "notjson"

\* Steps 1 and 2: getOrCreate, put key 1, put key 2.
RestHandleStatus ==
    /\ RestAt({"getOrCreate", "put1", "put2"})
    /\ IF send_failed(reply) THEN Abort(1)
       ELSE IF is_success(reply) THEN Proceed(Msg("ok"))
       ELSE Abort(1)
    /\ UNCHANGED <<prog, outstanding, sent, reply, retrieved, failedSteps, cluster>>

\* Step 3, key 1: decode "response" unless it is null or missing.
RestHandleGet1 ==
    /\ RestAt({"get1"})
    /\ IF send_failed(reply) THEN Abort(1) /\ UNCHANGED retrieved
       ELSE IF is_success(reply)
       THEN IF ~JsonOk(reply) THEN Abort(1) /\ UNCHANGED retrieved
            ELSE LET value_obj == JGet(reply.body, "response") IN
                 IF value_obj.some
                 THEN IF is_null(value_obj.v)
                      THEN Proceed(Msg("No value found")) /\ UNCHANGED retrieved
                      ELSE LET retrieved_value1 == FromValue(value_obj.v) IN
                           IF retrieved_value1.some
                           THEN /\ Proceed(Msg("Retrieved value"))
                                /\ retrieved' = [retrieved EXCEPT !["get1"] = retrieved_value1]
                           ELSE Abort(1) /\ UNCHANGED retrieved
                 ELSE Proceed(Msg("'response' field missing")) /\ UNCHANGED retrieved
       ELSE Abort(1) /\ UNCHANGED retrieved
    /\ UNCHANGED <<prog, outstanding, sent, reply, failedSteps, cluster>>

\* Step 3, key 99: only null-ness of "response" is looked at.
RestHandleGet99 ==
    /\ RestAt({"get99"})
    /\ IF send_failed(reply) THEN Abort(1)
       ELSE IF is_success(reply)
       THEN IF ~JsonOk(reply) THEN Abort(1)
            ELSE LET value_obj == JGet(reply.body, "response") IN
                 IF value_obj.some
                 THEN IF is_null(value_obj.v)
                      THEN Proceed(Msg("Correctly found no value"))
                      ELSE Proceed(Msg("Unexpectedly found value"))
                 ELSE Proceed(Msg("'response' field missing"))
       ELSE Abort(1)
    /\ UNCHANGED <<prog, outstanding, sent, reply, retrieved, failedSteps, cluster>>

\* Steps 4 and 5: CREATE TABLE and INSERT succeed on successStatus 0.
RestHandleExec ==
    /\ RestAt({"createTable", "insert"})
    /\ IF send_failed(reply) THEN Abort(1)
       ELSE IF is_success(reply)
       THEN IF ~JsonOk(reply) THEN Abort(1)
            ELSE IF as_i64(JIndex(reply.body, "successStatus")) = Some(0)
                 THEN Proceed(Msg("executed successfully"))
                 ELSE Abort(1)
       ELSE Abort(1)
    /\ UNCHANGED <<prog, outstanding, sent, reply, retrieved, failedSteps, cluster>>

\* One printed result row: the id and name the program reads from an item.
PrintedRow(item) ==
    [id |-> IF JGetIdx(item, 0).some THEN as_i64(JGetIdx(item, 0).v) ELSE None,
     name |-> IF JGetIdx(item, 1).some THEN as_str(JGetIdx(item, 1).v) ELSE None]

\* Steps 6 and 7: SELECT prints the items, or "No items found".
RestHandleSelect ==
    /\ RestAt({"select", "selectParam"})
    /\ IF send_failed(reply) THEN Abort(1)
       ELSE IF is_success(reply)
       THEN IF ~JsonOk(reply) THEN Abort(1)
            ELSE IF as_i64(JIndex(reply.body, "successStatus")) = Some(0)
                 THEN LET items == as_array(JIndex(JIndex(reply.body, "response"), "items")) IN
                      IF items.some
                      THEN Proceed([msg |-> "Query Results",
                                    rows |-> [i \in 1..Len(items.v) |-> PrintedRow(items.v[i])]])
                      ELSE Proceed(Msg("No items found"))
                 ELSE Abort(1)
       ELSE Abort(1)
    /\ UNCHANGED <<prog, outstanding, sent, reply, retrieved, failedSteps, cluster>>

\* Step 8: a refused destroy is printed and main still returns Ok, unless
\* reading the refusal's body fails.
RestHandleDestroy ==
    /\ RestAt({"destroy"})
    /\ IF send_failed(reply) THEN Abort(1)
       ELSE IF is_success(reply) THEN Finish(Msg("destroyed"))
       ELSE IF reply.readable THEN Finish(Msg("Failed to destroy"))
       ELSE Abort(1)
    /\ UNCHANGED <<prog, outstanding, sent, reply, retrieved, failedSteps, cluster>>

RestNext ==
    \/ RestSend
    \/ RestHandleStatus
    \/ RestHandleGet1
    \/ RestHandleGet99
    \/ RestHandleExec
    \/ RestHandleSelect
    \/ RestHandleDestroy

(***************************************************************************)
(* The binary program: every call is unwrapped with expect, so any Err     *)
(* panics (exit status 101).                                               *)
(***************************************************************************)
BinAt(steps) ==
    /\ prog = "binary"
    /\ status = "running"
    /\ phase = "received"
    /\ Cur \in steps

BinSend == SendStep("binary")

\* What cache.get returns: Err, Ok(None) or Ok(Some(value)); a value that
\* cannot be read back is an Err.
GetResult(r) ==
    IF r.res = "Err" THEN [ok |-> FALSE, val |-> None]
    ELSE IF ~r.payload.some THEN [ok |-> TRUE, val |-> None]
    ELSE IF ReadObj(r.payload.v).some THEN [ok |-> TRUE, val |-> ReadObj(r.payload.v)]
    ELSE [ok |-> FALSE, val |-> None]

\* new_client, get_or_create_cache, put key 1, put key 2.
BinHandleCall ==
    /\ BinAt({"connect", "get_or_create_cache", "put1", "put2"})
    /\ IF reply.res = "Ok" THEN Proceed(Msg("ok")) ELSE Abort(101)
    /\ UNCHANGED <<prog, outstanding, sent, reply, retrieved, failedSteps, cluster>>

\* get key 1, get key 2: Some(val) or None, both printed and the run goes on.
BinHandleGet ==
    /\ BinAt({"get1", "get2"})
    /\ LET res == GetResult(reply) IN
       IF res.ok
       THEN /\ retrieved' = [retrieved EXCEPT ![Cur] = res.val]
            /\ IF res.val.some
               THEN Proceed(Msg("Retrieved value"))
               ELSE Proceed(Msg("No value found"))
       ELSE Abort(101) /\ UNCHANGED retrieved
    /\ UNCHANGED <<prog, outstanding, sent, reply, failedSteps, cluster>>

\* get key 99.
BinHandleGet99 ==
    /\ BinAt({"get99"})
    /\ LET non_existent_val == GetResult(reply) IN
       IF non_existent_val.ok
       THEN /\ retrieved' = [retrieved EXCEPT ![Cur] = non_existent_val.val]
            /\ IF non_existent_val.val.some
               THEN Proceed(Msg("Unexpectedly found value"))
               ELSE Proceed(Msg("Correctly found no value"))
       ELSE Abort(101) /\ UNCHANGED retrieved
    /\ UNCHANGED <<prog, outstanding, sent, reply, failedSteps, cluster>>

\* destroy_cache, the last call.
BinHandleDestroy ==
    /\ BinAt({"destroy_cache"})
    /\ IF reply.res = "Ok" THEN Finish(Msg("destroyed")) ELSE Abort(101)
    /\ UNCHANGED <<prog, outstanding, sent, reply, retrieved, failedSteps, cluster>>

BinNext ==
    \/ BinSend
    \/ BinHandleCall
    \/ BinHandleGet
    \/ BinHandleGet99
    \/ BinHandleDestroy

ProgramNext == RestNext \/ BinNext

Next == ProgramNext \/ ClusterRespond

Spec == Init /\ [][Next]_vars

\* The same programs against a cluster that behaves as a key/value store.
NextKV == ProgramNext \/ KVRespond

SpecKV == Init /\ [][NextKV]_vars

\* Every request is eventually answered, and the program keeps running its
\* single thread of control.
FairSpec == Spec /\ WF_vars(ProgramNext) /\ WF_vars(ClusterRespond)

(***************************************************************************)
(* Vocabulary of the properties.                                           *)
(***************************************************************************)
StepAt(i) == Script(prog)[i]

\* The step whose reply the program has finished handling most recently.
JustHandled(step) ==
    /\ reply # NoReply
    /\ step \in Steps(prog)
    /\ \/ phase = "done" /\ Cur = step
       \/ phase \in {"ready", "awaiting"} /\ pc > 1 /\ StepAt(pc - 1) = step

\* The program has handled the reply of the step (in this run).
Handled(step) == step \in Steps(prog) /\ report[step].msg # "none"

Terminated == status \in {"finished", "aborted"}

\* A 2xx reply whose JSON body the program could read.
ReadableJson(r) == r.net = "http" /\ r.success /\ r.readable /\ r.body.t = "obj"

\* C1: whenever a step of the run fails the program ends with a non-zero
\* exit status; exit status zero is reached only if every step succeeded.
C1_ExitZeroOnlyIfAllSucceeded ==
    /\ exitCode = 0 => failedSteps = {}
    /\ (Terminated /\ failedSteps # {}) => exitCode > 0

\* C1, binary program alone: a run that ends without panic had no failed step.
C1_BinaryExitZeroOnlyIfAllSucceeded ==
    (prog = "binary" /\ exitCode = 0) => failedSteps = {}

\* A 2xx body that lacks the shape the step expects: no "response" field
\* for a get, successStatus 0 without a "response.items" array for a SELECT.
Malformed(step, r) ==
    /\ ReadableJson(r)
    /\ \/ step \in GetSteps /\ ~JGet(r.body, "response").some
       \/ /\ step \in SelectSteps
          /\ as_i64(JIndex(r.body, "successStatus")) = Some(0)
          /\ ~as_array(JIndex(JIndex(r.body, "response"), "items")).some

\* C2: in the REST program a 2xx reply with a malformed body aborts the run
\* at that step (both gets, both SELECTs); it is never passed over.
C2_MalformedBodyAborts ==
    \A step \in GetSteps \cup SelectSteps :
        (prog = "rest" /\ JustHandled(step) /\ Malformed(step, reply))
            => (status = "aborted" /\ Cur = step)

TransportFailure(r) == r.net = "senderr" \/ (r.net = "http" /\ ~r.success)

\* C3: in the REST program, once a step's request has failed at transport
\* level (send error or non-2xx status), that request is the last one ever
\* sent: it was sent once, nothing is outstanding, no later step is reached.
C3_TransportFailureStopsRequests ==
    (prog = "rest" /\ reply # NoReply /\ TransportFailure(reply)) =>
        /\ Len(sent) = pc
        /\ sent[pc] = RestRequest(Cur)
        /\ \A i \in 1..(pc - 1) : sent[i] # sent[pc]
        /\ outstanding = {}
        /\ phase \in {"received", "done"}

\* C3 witness: a put was refused with a non-2xx status and the run is over.
C3_Witness ==
    /\ prog = "rest" /\ phase = "done" /\ Cur = "put2"
    /\ reply # NoReply /\ reply.net = "http" /\ ~reply.success

\* A well-formed 2xx SQL reply that reports an Ignite-side failure.
ReportsFailure(r) ==
    /\ ReadableJson(r)
    /\ \/ as_i64(JIndex(r.body, "successStatus")) # Some(0)
       \/ ~is_null(JIndex(r.body, "error"))

\* C4: in the REST program every SQL step aborts the run on a 2xx reply
\* with a non-zero successStatus or a populated "error" field.
C4_SqlFailureAborts ==
    \A step \in SqlSteps :
        (prog = "rest" /\ JustHandled(step) /\ ReportsFailure(reply))
            => (status = "aborted" /\ Cur = step)

AbsentMsgs == {"No value found", "Correctly found no value"}

\* C5: for every get, an absent answer lets the run go on and is reported
\* as absent, and no error reply is reported as absent.
C5_AbsentIsNotAnError ==
    \A step \in GetSteps :
        JustHandled(step) =>
            /\ ErrorKind(prog, step, reply) = "absent" =>
                  (report[step].msg \in AbsentMsgs /\ status # "aborted")
            /\ IsError(prog, step, reply) => report[step].msg \notin AbsentMsgs

\* C5, binary program alone.
C5_BinaryAbsentIsNotAnError ==
    \A step \in GetSteps :
        (prog = "binary" /\ JustHandled(step)) =>
            /\ ErrorKind(prog, step, reply) = "absent" =>
                  (report[step].msg \in AbsentMsgs /\ status # "aborted")
            /\ IsError(prog, step, reply) => report[step].msg \notin AbsentMsgs

\* The get of the step was answered and the program went on with the answer.
Answered(step) == Handled(step) /\ report[step].msg # "error"

\* C6: against a cluster that is a key/value store, every answered get of a
\* key the program has put returns the value put under that key (key 1 in
\* the REST program, keys 1 and 2 in the binary program), and the get of
\* key 99 returns absent.
C6_RoundTrip ==
    /\ (prog = "rest" /\ Answered("get1")) =>
          (retrieved["get1"] = Some(RestValue1) /\ report["get1"].msg = "Retrieved value")
    /\ (prog = "binary" /\ Answered("get1")) =>
          (retrieved["get1"] = Some(BinValue1) /\ report["get1"].msg = "Retrieved value")
    /\ (prog = "binary" /\ Answered("get2")) =>
          (retrieved["get2"] = Some(BinValue2) /\ report["get2"].msg = "Retrieved value")
    /\ Answered("get99") =>
          (retrieved["get99"] = None /\ report["get99"].msg = "Correctly found no value")

\* C6 witness: the REST program got key 1 back and found key 99 absent,
\* with both of its entries held by the cluster.
C6_Witness ==
    /\ prog = "rest"
    /\ retrieved["get1"] = Some(RestValue1)
    /\ report["get99"].msg = "Correctly found no value"
    /\ cluster.cache /\ DOMAIN cluster.entries = {key1, key2}

\* C7: at most one request is outstanding, and it is the one sent last:
\* every earlier request was answered before the next one was sent.
C7_OneRequestAtATime ==
    /\ Cardinality(outstanding) <= 1
    /\ outstanding \subseteq {Len(sent)}
    /\ outstanding # {} => phase = "awaiting"
    /\ Len(sent) \in {pc - 1, pc}

\* C7 witness: a later step's request is outstanding.
C7_Witness == outstanding = {Len(sent)} /\ Len(sent) = 5

\* What a request is, in the words of the fixed script.
Describe(req) ==
    IF prog = "rest"
    THEN CASE req.url \in {"cache/put", "cache/get"} -> <<req.url, req.payload.v["key"].v>>
           [] req.url = "sql" -> <<req.url, req.payload.v["query"].v>>
           [] OTHER -> <<req.url>>
    ELSE IF req.op \in {"put", "get"} THEN <<req.op, req.key>> ELSE <<req.op>>

FixedRestSequence ==
    << <<"cache/getOrCreate">>, <<"cache/put", 1>>, <<"cache/put", 2>>,
       <<"cache/get", 1>>, <<"cache/get", 99>>,
       <<"sql", "CREATE TABLE">>, <<"sql", "INSERT">>, <<"sql", "SELECT">>,
       <<"sql", "SELECT WHERE">>, <<"cache/destroy">> >>

FixedBinarySequence ==
    << <<"handshake">>, <<"get_or_create_cache">>, <<"put", 1>>, <<"put", 2>>,
       <<"get", 1>>, <<"get", 2>>, <<"get", 99>>, <<"destroy_cache">> >>

FixedSequence == IF prog = "rest" THEN FixedRestSequence ELSE FixedBinarySequence

\* C8: the requests sent so far are a prefix of the fixed sequence, each
\* step sent at most once.
C8_SentIsPrefixOfScript ==
    /\ Len(sent) <= Len(FixedSequence)
    /\ \A i \in 1..Len(sent) : Describe(sent[i]) = FixedSequence[i]

\* C8 witness: the REST program has sent its whole script.
C8_Witness == prog = "rest" /\ Len(sent) = 10 /\ Describe(sent[10]) = <<"cache/destroy">>

DestroySent ==
    \E i \in 1..Len(sent) : Describe(sent[i]) \in {<<"cache/destroy">>, <<"destroy_cache">>}

CreateStep == IF prog = "rest" THEN "getOrCreate" ELSE "get_or_create_cache"

\* C9: the destroy request is sent only when every earlier step succeeded,
\* and a run that aborts after the cache was created never sends it and
\* leaves the cache on the cluster.
C9_DestroyOnlyAfterFullSuccess ==
    /\ DestroySent => failedSteps \subseteq {"destroy", "destroy_cache"}
    /\ (status = "aborted" /\ report[CreateStep].msg = "ok" /\ ~DestroySent) => cluster.cache
    /\ (status = "aborted" /\ Cur \notin {"destroy", "destroy_cache"}) => ~DestroySent

\* C9, the part about aborted runs alone: a run that aborts before its
\* destroy step never sends the destroy, and the created cache remains.
C9_AbortLeavesCache ==
    (status = "aborted" /\ Cur \notin {"destroy", "destroy_cache"}) =>
        /\ ~DestroySent
        /\ report[CreateStep].msg = "ok" => cluster.cache

\* C10: every run ends, finished or aborted; a finished run has attempted
\* every step, an aborted run stopped at the step that failed; and a run
\* never sends more requests than its script is long (10 REST, 8 binary).
C10_Terminates ==
    /\ <>Terminated
    /\ [](Len(sent) <= (IF prog = "rest" THEN 10 ELSE 8))
    /\ [](status = "finished" =>
             (Len(sent) = (IF prog = "rest" THEN 10 ELSE 8) /\ \A st \in Steps(prog) : Handled(st)))
    /\ [](status = "aborted" =>
             (Len(sent) = pc /\ report[Cur].msg = "error"
              /\ \A i \in (pc + 1)..Len(Script(prog)) : ~Handled(StepAt(i))))

\* C10 witness: a run aborted in the middle of the script.
C10_Witness == prog = "binary" /\ status = "aborted" /\ Cur = "get2" /\ Len(sent) = 6

====
